---- MODULE Spec2Model ----
(***************************************************************************)
(* Model of HyperMonetIconThemeScript.py: the Cleaner, MappingProcessor,   *)
(* IconProcessor and ThemePacker stages and the main pipeline, over an     *)
(* explicit file tree rooted at the working directory.                     *)
(*                                                                         *)
(* Strings that the code inspects character by character (component       *)
(* descriptors, package identifiers, path names) are sequences of          *)
(* one-character strings.  A path is a sequence of names relative to       *)
(* current_dir.                                                            *)
(***************************************************************************)
EXTENDS Integers, Sequences, FiniteSets, TLC

VARIABLES
    pc,           \* position of the caller: the next call to make
    current_dir,  \* absolute location of the working directory (names)
    fs,           \* file tree under current_dir: path -> node
    log,          \* stage banners printed so far
    exc           \* uncaught exception that ended the run, "" if none

vars ==
    <<pc, current_dir, fs, log, exc>>

(***************************************************************************)
(* Names                                                                   *)
(***************************************************************************)
N_output ==
    <<"o", "u", "t", "p", "u", "t">>
N_icons_template ==
    <<"i", "c", "o", "n", "s", "_", "t", "e", "m", "p", "l", "a", "t", "e">>
N_res ==
    <<"r", "e", "s">>
N_drawable_xxhdpi ==
    <<"d", "r", "a", "w", "a", "b", "l", "e", "-", "x", "x", "h", "d", "p", "i">>
N_icons_zip ==
    <<"i", "c", "o", "n", "s", ".", "z", "i", "p">>
N_icons ==
    <<"i", "c", "o", "n", "s">>
N_mtz_template ==
    <<"m", "t", "z", "_", "t", "e", "m", "p", "l", "a", "t", "e", "_",
      "H", "y", "p", "e", "r", "O", "S", "2">>
N_magisk_template ==
    <<"m", "a", "g", "i", "s", "k", "_", "t", "e", "m", "p", "l", "a", "t", "e",
      "_", "H", "y", "p", "e", "r", "O", "S", "2">>
N_icon_mapper_xml ==
    <<"i", "c", "o", "n", "_", "m", "a", "p", "p", "e", "r", ".", "x", "m", "l">>
N_appfilter_xml ==
    <<"a", "p", "p", "f", "i", "l", "t", "e", "r", ".", "x", "m", "l">>
N_svgs ==
    <<"s", "v", "g", "s">>
N_0_png ==
    <<"0", ".", "p", "n", "g">>
N_1_png ==
    <<"1", ".", "p", "n", "g">>
DotSvg ==
    <<".", "s", "v", "g">>
TargetPrefix ==
    <<"m", "a", "g", "i", "s", "k", "_", "m", "o", "d", "u", "l", "e", "_",
      "L", "a", "w", "n", "i", "c", "o", "n", "_",
      "H", "y", "p", "e", "r", "M", "o", "n", "e", "t", "T", "h", "e", "m", "e", "_">>
DotZip ==
    <<".", "z", "i", "p">>
ComponentInfoPrefix ==
    <<"C", "o", "m", "p", "o", "n", "e", "n", "t", "I", "n", "f", "o", "{">>

\* module-level paths, relative to current_dir
original_appfilter ==
    <<N_appfilter_xml>>
icon_mapper ==
    <<N_icon_mapper_xml>>
svg_dir ==
    <<N_svgs>>
output_dir ==
    <<N_output>>
icons_template_dir ==
    <<N_icons_template>>
magisk_template_dir ==
    <<N_magisk_template>>

(***************************************************************************)
(* File tree                                                               *)
(***************************************************************************)
NoEntries ==
    [p \in {} |-> 0]

\* a node: directory, or file with its content.  tag names the kind of
\* content, rows holds table rows, of holds the drawable an image was
\* rendered from, entries holds an archive's members (arcname -> node).
Node(kind, tag, rows, of, entries) ==
    [kind |-> kind, tag |-> tag, rows |-> rows, of |-> of, entries |-> entries]

DirNode ==
    Node("dir", "", <<>>, <<>>, NoEntries)

RawFile(tag) ==
    Node("file", tag, <<>>, <<>>, NoEntries)

IsPrefix(p, q) ==
    /\ Len(p) <= Len(q)
    /\ SubSeq(q, 1, Len(p)) = p

Under(p, q) ==
    IsPrefix(p, q) /\ Len(p) < Len(q)

Parent(p) ==
    SubSeq(p, 1, Len(p) - 1)

exists(f, p) ==
    p \in DOMAIN f

is_file(f, p) ==
    exists(f, p) /\ f[p].kind = "file"

is_dir(f, p) ==
    exists(f, p) /\ f[p].kind = "dir"

Put(f, p, n) ==
    [q \in DOMAIN f \cup {p} |-> IF q = p THEN n ELSE f[q]]

Drop(f, S) ==
    [q \in DOMAIN f \ S |-> f[q]]

\* results of the primitives: the new tree and the exception raised, if any
Ok(f) ==
    [fs |-> f, exc |-> ""]

Raise(f, e) ==
    [fs |-> f, exc |-> e]

os_remove(f, p) ==
    IF is_file(f, p) THEN Ok(Drop(f, {p}))
    ELSE IF is_dir(f, p) THEN Raise(f, "IsADirectoryError")
    ELSE Raise(f, "FileNotFoundError")

shutil_rmtree(f, p) ==
    IF is_dir(f, p) THEN Ok(Drop(f, {q \in DOMAIN f : IsPrefix(p, q)}))
    ELSE IF is_file(f, p) THEN Raise(f, "NotADirectoryError")
    ELSE Raise(f, "FileNotFoundError")

(***************************************************************************)
(* Cleaner                                                                 *)
(***************************************************************************)
clean_up ==
    << <<N_output>>,
       <<N_icons_template, N_res, N_drawable_xxhdpi>>,
       <<N_icons_template, N_icons_zip>>,
       <<N_icons_template, N_icons>>,
       <<N_mtz_template, N_icons>>,
       <<N_magisk_template, N_icons>>,
       <<N_icon_mapper_xml>> >>

cleanup_target_swapped(f, file) ==
    IF exists(f, file)
    THEN IF is_file(f, file) THEN shutil_rmtree(f, file) ELSE os_remove(f, file)
    ELSE Ok(f)

\* one iteration of the loop over clean_up
cleanup_target(f, file) ==
    IF exists(f, file)
    THEN IF is_file(f, file) THEN os_remove(f, file) ELSE shutil_rmtree(f, file)
    ELSE Ok(f)

\* the loop over clean_up; out collects the lines printed
RECURSIVE cleanup_from(_, _, _)
cleanup_from(f, i, out) ==
    IF i > Len(clean_up) THEN [fs |-> f, exc |-> "", out |-> out]
    ELSE LET file == clean_up[i]
             r == cleanup_target(f, file)
             line == IF ~ exists(f, file) THEN <<>>
                     ELSE IF is_file(f, file) THEN <<"deleted file">>
                     ELSE <<"deleted directory">>
         IN  IF r.exc # "" THEN [fs |-> r.fs, exc |-> r.exc, out |-> out]
             ELSE cleanup_from(r.fs, i + 1, out \o line)

cleanup(f) ==
    cleanup_from(f, 1, <<"Cleaner.cleanup">>)

(***************************************************************************)
(* Building file trees for the initial states                              *)
(***************************************************************************)
N_module_prop ==
    <<"m", "o", "d", "u", "l", "e", ".", "p", "r", "o", "p">>
N_transform_config_xml ==
    <<"t", "r", "a", "n", "s", "f", "o", "r", "m", "_", "c", "o", "n", "f", "i", "g", ".", "x", "m", "l">>
N_stale ==
    <<"s", "t", "a", "l", "e">>
N_home ==
    <<"h", "o", "m", "e">>
N_work ==
    <<"w", "o", "r", "k">>

\* a tree from a set of <<path, node>> pairs with distinct paths
FsOf(S) ==
    [p \in {e[1] : e \in S} |-> (CHOOSE e \in S : e[1] = p)[2]]

WorkLocation ==
    <<N_home, N_work>>

\* what every run starts from: the two templates with a static file each
TemplateEntries ==
    { <<icons_template_dir, DirNode>>,
      <<icons_template_dir \o <<N_res>>, DirNode>>,
      <<icons_template_dir \o <<N_transform_config_xml>>, RawFile("static")>>,
      <<magisk_template_dir, DirNode>>,
      <<magisk_template_dir \o <<N_module_prop>>, RawFile("static")>> }

CleanKinds ==
    {"absent", "file", "dir", "dirfull"}

\* a cleanup target that is absent, a file, an empty directory, or a
\* directory holding a subdirectory with a file
TargetEntries(t, k) ==
    CASE k = "absent"  -> {}
      [] k = "file"    -> { <<t, RawFile("stale")>> }
      [] k = "dir"     -> { <<t, DirNode>> }
      [] k = "dirfull" -> { <<t, DirNode>>,
                            <<t \o <<N_stale>>, DirNode>>,
                            <<t \o <<N_stale, N_0_png>>, RawFile("stale")>> }

InitClean ==
    /\ pc = "cleanup"
    /\ current_dir = WorkLocation
    /\ log = <<>>
    /\ exc = ""
    /\ \E k \in [1..Len(clean_up) -> CleanKinds], mtz \in BOOLEAN :
          fs = FsOf(TemplateEntries
                    \cup { <<original_appfilter, RawFile("static")>>,
                           <<svg_dir, DirNode>> }
                    \cup (IF mtz \/ k[5] # "absent"
                          THEN { << <<N_mtz_template>>, DirNode>> } ELSE {})
                    \cup UNION { TargetEntries(clean_up[i], k[i]) : i \in 1..Len(clean_up) })

\* Cleaner.cleanup(current_dir), called twice in a row
CallCleanup ==
    /\ pc \in {"cleanup", "cleanup_again"}
    /\ LET r == cleanup(fs)
       IN  /\ fs' = r.fs
           /\ exc' = r.exc
           /\ log' = log \o r.out
           /\ pc' = IF r.exc # "" THEN "aborted"
                    ELSE IF pc = "cleanup" THEN "cleanup_again" ELSE "returned"
    /\ UNCHANGED current_dir

NextClean ==
    CallCleanup

SpecClean ==
    InitClean /\ [][NextClean]_vars

IsTargetOrBelow(p) ==
    \E i \in 1..Len(clean_up) : IsPrefix(clean_up[i], p)

CleanupStepOk ==
    pc \in {"cleanup", "cleanup_again"} =>
        /\ exc' = ""
        /\ pc' # "aborted"
        /\ \A i \in 1..Len(clean_up) : ~ exists(fs', clean_up[i])
        /\ DOMAIN fs' \subseteq DOMAIN fs
        /\ \A p \in DOMAIN fs : ~ IsTargetOrBelow(p) => (exists(fs', p) /\ fs'[p] = fs[p])
        /\ (pc = "cleanup_again" => fs' = fs)

\* C8: cleanup completes without error from any state of its seven targets
\* (absent, file or directory), leaves none of the targets existing and
\* leaves every path outside the targets' subtrees as it was; a second run
\* right after changes nothing and completes without error.
C8_CleanupIdempotent ==
    [][CleanupStepOk]_vars

\* reached: both runs returned; the first removed a file and a directory,
\* the second found nothing to remove
C8_Witness ==
    /\ pc = "returned"
    /\ exc = ""
    /\ \E i, j \in 1..Len(log) : log[i] = "deleted file" /\ log[j] = "deleted directory"
    /\ log[Len(log)] = "Cleaner.cleanup"
    /\ exists(fs, icons_template_dir \o <<N_transform_config_xml>>)

(***************************************************************************)
(* MappingProcessor                                                        *)
(***************************************************************************)
\* code points of the characters the modelled identifiers are made of
CodePoint(c) ==
    CASE c = "." -> 46
      [] c = "/" -> 47
      [] c = "a" -> 97
      [] c = "b" -> 98
      [] c = "c" -> 99
      [] c = "x" -> 120
      [] c = "y" -> 121
      [] c = "{" -> 123
      [] c = "}" -> 125

\* Python's str ordering: by code point, a proper prefix sorts first
RECURSIVE StrLess(_, _)
StrLess(s, t) ==
    IF t = <<>> THEN FALSE
    ELSE IF s = <<>> THEN TRUE
    ELSE IF CodePoint(Head(s)) < CodePoint(Head(t)) THEN TRUE
    ELSE IF CodePoint(Head(s)) > CodePoint(Head(t)) THEN FALSE
    ELSE StrLess(Tail(s), Tail(t))

\* index of the first occurrence of character c in s at or after i, 0 if none
RECURSIVE IndexFrom(_, _, _)
IndexFrom(s, c, i) ==
    IF i > Len(s) THEN 0
    ELSE IF s[i] = c THEN i
    ELSE IndexFrom(s, c, i + 1)

\* re.match(r'ComponentInfo\{([^/]+)/.*?\}', component): anchored at the
\* start; the group runs to the first "/", must not be empty, and a "}" must
\* follow that "/" on the same line
parse_component_info(component) ==
    LET n == Len(ComponentInfoPrefix)
        slash == IndexFrom(component, "/", n + 1)
        close == IF slash = 0 THEN 0 ELSE IndexFrom(component, "}", slash + 1)
        newline == IF slash = 0 THEN 0 ELSE IndexFrom(component, "\n", slash + 1)
    IN  IF /\ Len(component) >= n
           /\ SubSeq(component, 1, n) = ComponentInfoPrefix
           /\ slash > n + 1
           /\ close > 0
           /\ (newline = 0 \/ close < newline)
        THEN SubSeq(component, n + 1, slash - 1)
        ELSE <<>>

\* a dict is the sequence of its <<key, value>> pairs in insertion order
DictKeys(d) ==
    {d[i][1] : i \in 1..Len(d)}

dict_setdefault(d, k, v) ==
    IF k \in DictKeys(d) THEN d ELSE Append(d, <<k, v>>)

\* d[k] = v
dict_set(d, k, v) ==
    IF k \in DictKeys(d)
    THEN [i \in 1..Len(d) |-> IF d[i][1] = k THEN <<k, v>> ELSE d[i]]
    ELSE Append(d, <<k, v>>)

\* the loop over root.findall('item')
RECURSIVE unique_packages_of(_, _, _)
unique_packages_of(items, i, d) ==
    IF i > Len(items) THEN d
    ELSE LET component == items[i].component
             name == items[i].name
             drawable == items[i].drawable
             package == parse_component_info(component)
         IN  IF component # <<>> /\ drawable # <<>> /\ package # <<>>
             THEN unique_packages_of(items, i + 1, dict_set(d, package, <<name, drawable>>))
             ELSE unique_packages_of(items, i + 1, d)

\* insert a pair into a sequence sorted by key
RECURSIVE InsertSorted(_, _)
InsertSorted(srt, e) ==
    IF srt = <<>> THEN <<e>>
    ELSE IF StrLess(e[1], Head(srt)[1]) THEN <<e>> \o srt
    ELSE <<Head(srt)>> \o InsertSorted(Tail(srt), e)

RECURSIVE SortFrom(_, _, _)
SortFrom(d, i, srt) ==
    IF i > Len(d) THEN srt ELSE SortFrom(d, i + 1, InsertSorted(srt, d[i]))

unsorted(d) ==
    d

\* sorted(unique_packages.items()): the keys are distinct, so by key
sorted(d) ==
    SortFrom(d, 1, <<>>)

\* the rows of new_root, in document order
new_root_rows(items) ==
    LET srt == sorted(unique_packages_of(items, 1, <<>>))
    IN  [i \in 1..Len(srt) |->
            [name |-> srt[i][2][1], package |-> srt[i][1], drawable |-> srt[i][2][2]]]

XmlFile(rows) ==
    Node("file", "xml", rows, <<>>, NoEntries)

\* result of a stage: the new tree, the exception raised, the lines printed
Result(f, e, out) ==
    [fs |-> f, exc |-> e, out |-> out]

convert_icon_mapper(f, input_path, output_path) ==
    LET out == <<"MappingProcessor.convert_icon_mapper">>
    IN  IF ~ exists(f, input_path) THEN Result(f, "FileNotFoundError", out)
        ELSE IF is_dir(f, input_path) THEN Result(f, "IsADirectoryError", out)
        ELSE IF f[input_path].tag # "xml" THEN Result(f, "ParseError", out)
        ELSE IF is_dir(f, output_path) THEN Result(f, "IsADirectoryError", out)
        ELSE Result(Put(f, output_path, XmlFile(new_root_rows(f[input_path].rows))),
                    "", out)

(***************************************************************************)
(* Source tables for the initial states                                    *)
(***************************************************************************)
MaxItems ==
    3

Component(package, class) ==
    ComponentInfoPrefix \o package \o <<"/">> \o class \o <<"}">>

Components ==
    { Component(<<"a">>, <<".", "x">>),
      Component(<<"a">>, <<".", "y">>),
      Component(<<"a", "b">>, <<".", "x">>),
      Component(<<"b">>, <<".", "x">>),
      Component(<<"c", "}">>, <<".", "x">>),
      <<>>,
      ComponentInfoPrefix \o <<"a", "}">>,
      ComponentInfoPrefix \o <<"/", ".", "x", "}">>,
      ComponentInfoPrefix \o <<"b", "/", ".", "x">> }

D_mail ==
    <<"m", "a", "i", "l">>
D_maps ==
    <<"m", "a", "p", "s">>

\* name and drawable attributes of an item; the last has no drawable
Payloads ==
    { <<"Mail", D_mail>>, <<"Maps", D_maps>>, <<"", <<>>>> }

Items ==
    { [component |-> c, name |-> nd[1], drawable |-> nd[2]] :
         c \in Components, nd \in Payloads }

Tables ==
    UNION { [1..n -> Items] : n \in 0..MaxItems }

InitMap ==
    /\ pc = "convert_icon_mapper"
    /\ current_dir = WorkLocation
    /\ log = <<>>
    /\ exc = ""
    /\ \E t \in Tables :
          fs = FsOf(TemplateEntries \cup { <<original_appfilter, XmlFile(t)>> })

\* MappingProcessor.convert_icon_mapper(str(original_appfilter), str(icon_mapper))
CallConvert ==
    /\ pc = "convert_icon_mapper"
    /\ LET r == convert_icon_mapper(fs, original_appfilter, icon_mapper)
       IN  /\ fs' = r.fs
           /\ exc' = r.exc
           /\ log' = log \o r.out
           /\ pc' = IF r.exc # "" THEN "aborted" ELSE "converted"
    /\ UNCHANGED current_dir

NextMap ==
    CallConvert

SpecMap ==
    InitMap /\ [][NextMap]_vars

\* the items of the source table that the loop does not skip
KeptItems(items) ==
    { i \in 1..Len(items) :
         /\ items[i].component # <<>>
         /\ items[i].drawable # <<>>
         /\ parse_component_info(items[i].component) # <<>> }

ResolvedPackages(items) ==
    { parse_component_info(items[i].component) : i \in KeptItems(items) }

\* every package some item's component names, skipped or not
ReferencedPackages(items) ==
    { parse_component_info(items[i].component) : i \in 1..Len(items) } \ { <<>> }

SourceItems ==
    fs[original_appfilter].rows

MapperRows ==
    fs[icon_mapper].rows

\* C1 as stated: the normalized table has one row per package referenced by
\* the source table, K rows for K referenced packages, in ascending order.
C1_RowsPerReferencedPackage ==
    pc = "converted" =>
        /\ Len(MapperRows) = Cardinality(ReferencedPackages(SourceItems))
        /\ {MapperRows[i].package : i \in 1..Len(MapperRows)} = ReferencedPackages(SourceItems)
        /\ \A i, j \in 1..Len(MapperRows) :
              i < j => StrLess(MapperRows[i].package, MapperRows[j].package)

\* C1 amended: the normalized table has exactly one row per distinct package
\* among the items that are not skipped (non-empty component, non-empty
\* drawable, parseable package), in ascending order of package identifier.
C1_RowsPerResolvedPackage ==
    pc = "converted" =>
        /\ Len(MapperRows) = Cardinality(ResolvedPackages(SourceItems))
        /\ {MapperRows[i].package : i \in 1..Len(MapperRows)} = ResolvedPackages(SourceItems)
        /\ \A i, j \in 1..Len(MapperRows) :
              i < j => StrLess(MapperRows[i].package, MapperRows[j].package)

\* reached: a table of three kept items over two packages, the larger
\* package first in the source, written as two rows
C1_Witness ==
    /\ pc = "converted"
    /\ Len(SourceItems) = 3
    /\ KeptItems(SourceItems) = 1..3
    /\ Len(MapperRows) = 2
    /\ StrLess(MapperRows[1].package, parse_component_info(SourceItems[1].component))

\* C2: the row kept for a package carries the name and drawable of the last
\* item, in source order, among the kept items that resolve to that package.
C2_LastItemWins ==
    pc = "converted" =>
        \A r \in 1..Len(MapperRows) :
            LET same == { i \in KeptItems(SourceItems) :
                             parse_component_info(SourceItems[i].component) = MapperRows[r].package }
                last == CHOOSE i \in same : \A j \in same : j <= i
            IN  /\ same # {}
                /\ MapperRows[r].name = SourceItems[last].name
                /\ MapperRows[r].drawable = SourceItems[last].drawable

\* reached: two kept items of one package with different drawables, and a
\* second package that sorts before it but comes later in the source
C2_Witness ==
    /\ pc = "converted"
    /\ Len(MapperRows) = 2
    /\ \E i, j \in KeptItems(SourceItems) :
          /\ i < j
          /\ parse_component_info(SourceItems[i].component)
                = parse_component_info(SourceItems[j].component)
          /\ SourceItems[i].drawable # SourceItems[j].drawable
          /\ MapperRows[2].package = parse_component_info(SourceItems[i].component)
          /\ i = 1

(***************************************************************************)
(* IconProcessor                                                           *)
(***************************************************************************)
\* Path.mkdir(parents=..., exist_ok=...)
mkdir(f, p, parents, exist_ok) ==
    IF exists(f, p)
    THEN IF is_dir(f, p) /\ exist_ok THEN Ok(f) ELSE Raise(f, "FileExistsError")
    ELSE IF Len(p) > 1 /\ ~ exists(f, Parent(p)) /\ ~ parents
    THEN Raise(f, "FileNotFoundError")
    ELSE IF \E k \in 1..(Len(p) - 1) : is_file(f, SubSeq(p, 1, k))
    THEN Raise(f, "NotADirectoryError")
    ELSE Ok([q \in DOMAIN f \cup {SubSeq(p, 1, k) : k \in 1..Len(p)} |->
                IF q \in DOMAIN f THEN f[q] ELSE DirNode])

\* writing a file: open(p, 'w') / Image.save(p)
save(f, p, node) ==
    IF is_dir(f, p) THEN Raise(f, "IsADirectoryError")
    ELSE IF Len(p) > 1 /\ ~ is_dir(f, Parent(p)) THEN Raise(f, "FileNotFoundError")
    ELSE Ok(Put(f, p, node))

\* a vector asset the rasterizer accepts, drawn as the glyph of drawable d
SvgFile(d) ==
    Node("file", "svg", <<>>, d, NoEntries)

None ==
    Node("none", "", <<>>, <<>>, NoEntries)

\* create_background: the solid canvas
create_background ==
    Node("file", "background", <<>>, <<>>, NoEntries)

process_svg_raising(f, svg_path) ==
    IF is_file(f, svg_path) /\ f[svg_path].tag = "svg"
    THEN [exc |-> "", icon |-> Node("file", "foreground", <<>>, f[svg_path].of, NoEntries)]
    ELSE [exc |-> "Exception", icon |-> None]

\* process_svg: svg2png raises on a source it cannot rasterize; the handler
\* prints the error and returns None, otherwise the recolored glyph
process_svg(f, svg_path) ==
    IF is_file(f, svg_path) /\ f[svg_path].tag = "svg"
    THEN [exc |-> "", icon |-> Node("file", "foreground", <<>>, f[svg_path].of, NoEntries)]
    ELSE [exc |-> "", icon |-> None]

\* the loop over root.findall('item') of parse_icon_mapper
RECURSIVE mapper_of(_, _, _)
mapper_of(rows, i, d) ==
    IF i > Len(rows) THEN d
    ELSE IF rows[i].package # <<>> /\ rows[i].drawable # <<>>
    THEN mapper_of(rows, i + 1, dict_set(d, rows[i].package, rows[i].drawable))
    ELSE mapper_of(rows, i + 1, d)

parse_icon_mapper(f, xml_path) ==
    mapper_of(f[xml_path].rows, 1, <<>>)

svg_path_of(svgs, drawable_name) ==
    svgs \o <<drawable_name \o DotSvg>>

generate_icon_background_first(f, svgs, output_path, package_name, drawable_name) ==
    LET svg_path == svg_path_of(svgs, drawable_name)
        icon_dir == output_path \o <<package_name>>
        made == mkdir(f, icon_dir, FALSE, TRUE)
        bg == IF made.exc # "" THEN made
              ELSE save(made.fs, icon_dir \o <<N_0_png>>, create_background)
    IN  IF bg.exc # "" THEN Result(bg.fs, bg.exc, <<>>)
        ELSE IF ~ exists(f, svg_path) THEN Result(bg.fs, "", <<"svg not found">>)
        ELSE LET icon == process_svg(bg.fs, svg_path)
                 fg == save(bg.fs, icon_dir \o <<N_1_png>>, icon.icon)
             IN  IF icon.exc # "" THEN Result(bg.fs, icon.exc, <<>>)
                 ELSE IF icon.icon = None THEN Result(bg.fs, "", <<"failed">>)
                 ELSE IF fg.exc # "" THEN Result(fg.fs, fg.exc, <<>>)
                 ELSE Result(fg.fs, "", <<"processed">>)

\* the body of the loop over mapper.items()
generate_icon(f, svgs, output_path, package_name, drawable_name) ==
    LET svg_path == svg_path_of(svgs, drawable_name)
        icon_dir == output_path \o <<package_name>>
        made == mkdir(f, icon_dir, FALSE, TRUE)
        bg == IF made.exc # "" THEN made
              ELSE save(made.fs, icon_dir \o <<N_0_png>>, create_background)
    IN  IF ~ exists(f, svg_path) THEN Result(f, "", <<"svg not found">>)
        ELSE IF bg.exc # "" THEN Result(bg.fs, bg.exc, <<>>)
        ELSE LET icon == process_svg(bg.fs, svg_path)
                 fg == save(bg.fs, icon_dir \o <<N_1_png>>, icon.icon)
             IN  IF icon.exc # "" THEN Result(bg.fs, icon.exc, <<>>)
                 ELSE IF icon.icon = None THEN Result(bg.fs, "", <<"failed">>)
                 ELSE IF fg.exc # "" THEN Result(fg.fs, fg.exc, <<>>)
                 ELSE Result(fg.fs, "", <<"processed">>)

RECURSIVE generate_from(_, _, _, _, _, _)
generate_from(f, svgs, output_path, mapper, i, out) ==
    IF i > Len(mapper) THEN Result(f, "", out)
    ELSE LET r == generate_icon(f, svgs, output_path, mapper[i][1], mapper[i][2])
         IN  IF r.exc # "" THEN Result(r.fs, r.exc, out \o r.out)
             ELSE generate_from(r.fs, svgs, output_path, mapper, i + 1, out \o r.out)

generate_icons(f, icon_mapper_path, svgs, output_path) ==
    LET made == mkdir(f, output_path, TRUE, TRUE)
        out == <<"IconProcessor.generate_icons">>
    IN  IF made.exc # "" THEN Result(made.fs, made.exc, <<>>)
        ELSE IF ~ exists(f, icon_mapper_path) THEN Result(made.fs, "FileNotFoundError", out)
        ELSE IF is_dir(f, icon_mapper_path) THEN Result(made.fs, "IsADirectoryError", out)
        ELSE IF f[icon_mapper_path].tag # "xml" THEN Result(made.fs, "ParseError", out)
        ELSE generate_from(made.fs, svgs, output_path,
                           parse_icon_mapper(f, icon_mapper_path), 1, out)

(***************************************************************************)
(* Rendering from the normalized tables and the asset directory            *)
(***************************************************************************)
Drawables ==
    { D_mail, D_maps }

AssetKinds ==
    {"absent", "svg", "malformed"}

AssetEntries(d, k) ==
    CASE k = "absent"    -> {}
      [] k = "svg"       -> { <<svg_path_of(svg_dir, d), SvgFile(d)>> }
      [] k = "malformed" -> { <<svg_path_of(svg_dir, d), RawFile("malformed")>> }

AssetTrees ==
    { { <<svg_dir, DirNode>> } \cup UNION { AssetEntries(d, k[d]) : d \in Drawables } :
         k \in [Drawables -> AssetKinds] }

\* the normalized tables convert_icon_mapper writes
MapperTables ==
    { new_root_rows(t) : t \in Tables }

InitRender ==
    /\ pc = "generate_icons"
    /\ current_dir = WorkLocation
    /\ log = <<>>
    /\ exc = ""
    /\ \E rows \in MapperTables, assets \in AssetTrees, out \in BOOLEAN :
          fs = FsOf(TemplateEntries
                    \cup { <<icon_mapper, XmlFile(rows)>> }
                    \cup assets
                    \cup (IF out THEN { <<output_dir, DirNode>> } ELSE {}))

\* IconProcessor.generate_icons(icon_mapper, svg_dir, output_dir, ...)
CallGenerate ==
    /\ pc = "generate_icons"
    /\ LET r == generate_icons(fs, icon_mapper, svg_dir, output_dir)
       IN  /\ fs' = r.fs
           /\ exc' = r.exc
           /\ log' = log \o r.out
           /\ pc' = IF r.exc # "" THEN "aborted" ELSE "generated"
    /\ UNCHANGED current_dir

NextRender ==
    CallGenerate

SpecRender ==
    InitRender /\ [][NextRender]_vars

\* the mapping generate_icons iterates, read back from the tree
Mapper ==
    parse_icon_mapper(fs, icon_mapper)

PackageDirs ==
    { p \in DOMAIN fs : Len(p) = 2 /\ p[1] = N_output /\ fs[p].kind = "dir" }

AssetMissing(i) ==
    ~ exists(fs, svg_path_of(svg_dir, Mapper[i][2]))

AssetFails(i) ==
    /\ exists(fs, svg_path_of(svg_dir, Mapper[i][2]))
    /\ process_svg(fs, svg_path_of(svg_dir, Mapper[i][2])).icon = None

AssetRenders(i) ==
    /\ exists(fs, svg_path_of(svg_dir, Mapper[i][2]))
    /\ process_svg(fs, svg_path_of(svg_dir, Mapper[i][2])).icon # None

\* C3: after generate_icons returns, every package directory under the
\* output directory holds both 0.png and 1.png.
C3_BothImagesInEveryDir ==
    pc = "generated" =>
        \A d \in PackageDirs :
            is_file(fs, d \o <<N_0_png>>) /\ is_file(fs, d \o <<N_1_png>>)

\* C4: after generate_icons returns, a mapped package whose asset file is
\* absent has no directory and no file under the output directory.
C4_NoOutputForMissingAsset ==
    pc = "generated" =>
        \A i \in 1..Len(Mapper) :
            AssetMissing(i) =>
                \A p \in DOMAIN fs : ~ IsPrefix(output_dir \o <<Mapper[i][1]>>, p)

\* reached: a package skipped for its missing asset ahead of a package that
\* was rendered into its directory
C4_Witness ==
    /\ pc = "generated"
    /\ \E i, j \in 1..Len(Mapper) :
          /\ i < j
          /\ AssetMissing(i)
          /\ is_file(fs, output_dir \o <<Mapper[j][1], N_1_png>>)
    /\ \E k \in 1..Len(log) : log[k] = "svg not found"

\* the tree as generate_icons would find it without row i in the mapping
WithoutMapping(f, i) ==
    LET rows == f[icon_mapper].rows
        m == parse_icon_mapper(f, icon_mapper)
        rest == SelectSeq(rows, LAMBDA r : r.package # m[i][1])
    IN  Put(f, icon_mapper, XmlFile(rest))

GenerateSurvivesFailure ==
    pc = "generate_icons" =>
        \A i, j \in 1..Len(Mapper) :
            (i < j /\ AssetFails(i) /\ AssetRenders(j)) =>
                LET dir == output_dir \o <<Mapper[j][1]>>
                    alone == generate_icons(WithoutMapping(fs, i), icon_mapper, svg_dir, output_dir).fs
                IN  /\ exc' = ""
                    /\ pc' = "generated"
                    /\ is_file(fs', dir \o <<N_0_png>>)
                    /\ is_file(fs', dir \o <<N_1_png>>)
                    /\ \A p \in DOMAIN fs' \cup DOMAIN alone :
                          IsPrefix(dir, p) =>
                              (exists(fs', p) /\ exists(alone, p) /\ fs'[p] = alone[p])

\* C9: a rasterization failure does not abort generate_icons; every later
\* package with an existing, rasterizable asset gets its directory with
\* 0.png and 1.png, exactly as when the failing package is not mapped.
C9_FailureIsPerItem ==
    [][GenerateSurvivesFailure]_vars

\* reached: a package whose rasterization failed, followed in the mapping by
\* a package that was rendered
C9_Witness ==
    /\ pc = "generated"
    /\ \E i, j \in 1..Len(Mapper) :
          /\ i < j
          /\ AssetFails(i)
          /\ AssetRenders(j)
          /\ is_file(fs, output_dir \o <<Mapper[j][1], N_1_png>>)
    /\ \E k \in 1..Len(log) : log[k] = "failed"

(***************************************************************************)
(* ThemePacker                                                             *)
(***************************************************************************)
\* str(path): the names joined by the separator, from the root
RECURSIVE PathStr(_)
PathStr(names) ==
    IF names = <<>> THEN <<>>
    ELSE <<"/">> \o Head(names) \o PathStr(Tail(names))

\* needle in hay, for strings
Contains(hay, needle) ==
    \E i \in 1..(Len(hay) - Len(needle) + 1) :
        SubSeq(hay, i, i + Len(needle) - 1) = needle

\* os.path.relpath(path, start) for a path below start
relpath(path, start) ==
    SubSeq(path, Len(start) + 1, Len(path))

\* the files os.walk(top) reaches, as <<root, file>> with root the directory
walk(f, top) ==
    IF ~ is_dir(f, top) THEN {}
    ELSE { <<Parent(p), p[Len(p)]>> : p \in { q \in DOMAIN f : Under(top, q) /\ f[q].kind = "file" } }

\* shutil.copytree(src, dst): dst must not exist
copytree(f, src, dst) ==
    IF exists(f, dst) THEN Raise(f, "FileExistsError")
    ELSE IF ~ is_dir(f, Parent(dst)) THEN Raise(f, "FileNotFoundError")
    ELSE LET sub == { q \in DOMAIN f : IsPrefix(src, q) }
             moved(q) == dst \o relpath(q, src)
         IN  Ok([q \in DOMAIN f \cup { moved(s) : s \in sub } |->
                    IF q \in DOMAIN f THEN f[q]
                    ELSE f[CHOOSE s \in sub : moved(s) = q]])

\* the loop over Path(output_dir).iterdir(), in any order: the copies do
\* not overlap
RECURSIVE copy_icons(_, _, _)
copy_icons(f, items, drawable_dir) ==
    IF items = {} THEN Ok(f)
    ELSE LET item == CHOOSE i \in items : TRUE
             r == IF is_dir(f, item)
                  THEN copytree(f, item, drawable_dir \o <<item[Len(item)]>>)
                  ELSE Ok(f)
         IN  IF r.exc # "" THEN r ELSE copy_icons(r.fs, items \ {item}, drawable_dir)

ZipFile(entries) ==
    Node("file", "zip", <<>>, <<>>, entries)

\* an archive read while it is being written: the members flushed so far
PartialZipFile(entries) ==
    Node("file", "zip being written", <<>>, <<>>, entries)

\* the archive written by walking top after the archive file zip_path was
\* created; seen are the members already on disk when the walk reads the
\* archive file itself
write_zip_of_tree(f, top, zip_path, seen) ==
    LET created == Put(f, zip_path, PartialZipFile(NoEntries))
        files == walk(created, top)
        arc(e) == relpath(e[1] \o <<e[2]>>, top)
        names == { arc(e) : e \in files }
        content(a) == IF top \o a = zip_path
                      THEN PartialZipFile([b \in seen |-> f[top \o b]])
                      ELSE f[top \o a]
    IN  Put(f, zip_path, ZipFile([a \in names |-> content(a)]))

\* the members that can be on disk before the walk reads the archive file:
\* files of the top directory, listed before it
TopMembers(f, top, zip_path) ==
    { <<p[Len(p)]>> : p \in { q \in DOMAIN f :
          Len(q) = Len(top) + 1 /\ IsPrefix(top, q)
          /\ f[q].kind = "file" /\ q # zip_path } }

\* os.rename(src, dst) for a file src
os_rename(f, src, dst) ==
    IF is_dir(f, dst) THEN Raise(f, "IsADirectoryError")
    ELSE Ok(Drop(Put(f, dst, f[src]), {src}))

\* shutil.copy(src, dst): into dst when dst is a directory
shutil_copy(f, src, dst) ==
    LET to == IF is_dir(f, dst) THEN dst \o <<src[Len(src)]>> ELSE dst
    IN  save(f, to, f[src])

pack_icons_zip(f, output_path, icons_template, magisk_template, seen) ==
    LET out == <<"ThemePacker.pack_icons_zip">>
        icons_template_drawable_dir == icons_template \o <<N_res, N_drawable_xxhdpi>>
        cleared == IF exists(f, icons_template_drawable_dir)
                   THEN shutil_rmtree(f, icons_template_drawable_dir)
                   ELSE Ok(f)
        made == IF cleared.exc # "" THEN cleared
                ELSE mkdir(cleared.fs, icons_template_drawable_dir, TRUE, FALSE)
        items == { q \in DOMAIN f : Len(q) = Len(output_path) + 1 /\ IsPrefix(output_path, q) }
        copied == IF made.exc # "" THEN made
                  ELSE IF ~ is_dir(f, output_path) THEN Raise(made.fs, "FileNotFoundError")
                  ELSE copy_icons(made.fs, items, icons_template_drawable_dir)
        temp_icons_zip == icons_template \o <<N_icons_zip>>
        final_icons == icons_template \o <<N_icons>>
        zipped == IF copied.exc # "" THEN copied
                  ELSE IF is_dir(copied.fs, temp_icons_zip) THEN Raise(copied.fs, "IsADirectoryError")
                  ELSE Ok(write_zip_of_tree(copied.fs, icons_template, temp_icons_zip,
                                            seen \cap TopMembers(copied.fs, icons_template, temp_icons_zip)))
        renamed == IF zipped.exc # "" THEN zipped
                   ELSE os_rename(zipped.fs, temp_icons_zip, final_icons)
        placed == IF renamed.exc # "" THEN renamed
                  ELSE shutil_copy(renamed.fs, final_icons, magisk_template)
    IN  Result(placed.fs, placed.exc, out)

root_and_file_has_icons(location, root, file) ==
    Contains(PathStr(location \o root \o <<file>>), N_icons)

\* "icons" in root, for the directory root that os.walk reports: the
\* template's absolute path followed by the directory's path below it
root_has_icons(location, root, file) ==
    Contains(PathStr(location \o root), N_icons)

target_magisk(timestamp) ==
    <<TargetPrefix \o timestamp \o DotZip>>

pack_magisk_module(f, location, magisk_template, timestamp) ==
    LET out == <<"ThemePacker.pack_magisk_module">>
        files == { e \in walk(f, magisk_template) : ~ root_has_icons(location, e[1], e[2]) }
        arc(e) == relpath(e[1] \o <<e[2]>>, magisk_template)
        names == { arc(e) : e \in files }
        r == save(f, target_magisk(timestamp),
                  ZipFile([a \in names |-> f[magisk_template \o a]]))
    IN  Result(r.fs, r.exc, out)

(***************************************************************************)
(* Packing from rendered output and the two templates                      *)
(***************************************************************************)
N_my_icons ==
    <<"m", "y", "_", "i", "c", "o", "n", "s">>
N_system ==
    <<"s", "y", "s", "t", "e", "m">>
N_media ==
    <<"m", "e", "d", "i", "a">>
N_icons_txt ==
    <<"i", "c", "o", "n", "s", ".", "t", "x", "t">>
N_service_sh ==
    <<"s", "e", "r", "v", "i", "c", "e", ".", "s", "h">>

\* working directories: one whose path has no "icons" in it and one below a
\* directory named my_icons
Locations ==
    { WorkLocation, <<N_home, N_my_icons, N_work>> }

Timestamps ==
    { <<"2", "0", "2", "4", "0", "1", "0", "1", "_", "0", "0", "0", "0", "0", "0">>,
      <<"2", "0", "2", "4", "0", "1", "0", "1", "_", "0", "0", "0", "0", "0", "1">> }

Packages ==
    { <<"a">>, <<"b">> }

RenderKinds ==
    {"none", "both", "background only"}

\* what generate_icons leaves for a package: nothing, both images, or the
\* background alone
RenderedEntries(top, package, k) ==
    CASE k = "none" -> {}
      [] k = "both" -> { <<top \o <<package>>, DirNode>>,
                         <<top \o <<package, N_0_png>>, create_background>>,
                         <<top \o <<package, N_1_png>>,
                           Node("file", "foreground", <<>>, D_mail, NoEntries)>> }
      [] k = "background only" ->
                       { <<top \o <<package>>, DirNode>>,
                         <<top \o <<package, N_0_png>>, create_background>> }

\* optional parts of the module template: a plain subdirectory, a
\* subdirectory with "icons" in its name, a file with "icons" in its name
TemplateBExtras ==
    { { <<magisk_template_dir \o <<N_system>>, DirNode>>,
        <<magisk_template_dir \o <<N_system, N_media>>, RawFile("static")>> },
      { <<magisk_template_dir \o <<N_my_icons>>, DirNode>>,
        <<magisk_template_dir \o <<N_my_icons, N_service_sh>>, RawFile("static")>> },
      { <<magisk_template_dir \o <<N_icons_txt>>, RawFile("static")>> } }

InitPack ==
    /\ pc = "pack_icons_zip"
    /\ current_dir \in Locations
    /\ log = <<>>
    /\ exc = ""
    /\ \E k \in [Packages -> RenderKinds], stale \in BOOLEAN, extras \in SUBSET TemplateBExtras :
          fs = FsOf(TemplateEntries
                    \cup { <<output_dir, DirNode>> }
                    \cup UNION { RenderedEntries(output_dir, p, k[p]) : p \in Packages }
                    \cup (IF stale
                          THEN { <<icons_template_dir \o <<N_res, N_drawable_xxhdpi>>, DirNode>> }
                               \cup RenderedEntries(icons_template_dir \o <<N_res, N_drawable_xxhdpi>>,
                                                    N_stale, "both")
                          ELSE {})
                    \cup UNION extras)

\* ThemePacker.pack_icons_zip(output_dir, icons_template_dir, magisk_template_dir)
CallPackIconsZip ==
    /\ pc = "pack_icons_zip"
    /\ \E seen \in SUBSET TopMembers(fs, icons_template_dir, icons_template_dir \o <<N_icons_zip>>) :
          LET r == pack_icons_zip(fs, output_dir, icons_template_dir, magisk_template_dir, seen)
          IN  /\ fs' = r.fs
              /\ exc' = r.exc
              /\ log' = log \o r.out
              /\ pc' = IF r.exc # "" THEN "aborted" ELSE "pack_magisk_module"
    /\ UNCHANGED current_dir

\* ThemePacker.pack_magisk_module(magisk_template_dir, target_magisk_pattern)
CallPackMagiskModule ==
    /\ pc = "pack_magisk_module"
    /\ \E timestamp \in Timestamps :
          LET r == pack_magisk_module(fs, current_dir, magisk_template_dir, timestamp)
          IN  /\ fs' = r.fs
              /\ exc' = r.exc
              /\ log' = log \o r.out
              /\ pc' = IF r.exc # "" THEN "aborted" ELSE "packed"
    /\ UNCHANGED current_dir

NextPack ==
    \/ CallPackIconsZip
    \/ CallPackMagiskModule

SpecPack ==
    InitPack /\ [][NextPack]_vars

\* the intermediate archive and the final module archive, once written
IconsArchive ==
    fs[icons_template_dir \o <<N_icons>>]

FinalArchive ==
    fs[CHOOSE p \in DOMAIN fs : \E t \in Timestamps : p = target_magisk(t)]

FilesBelow(top) ==
    { p \in DOMAIN fs : Under(top, p) /\ fs[p].kind = "file" }

\* C10: the members of the intermediate icons archive are the files of
\* template A as it stood before the archive file was created; the archive
\* has no member for the archive file itself.
C10_ArchiveOfTemplateA ==
    pc = "pack_magisk_module" =>
        /\ DOMAIN IconsArchive.entries
              = { relpath(p, icons_template_dir) : p \in FilesBelow(icons_template_dir) }
                   \ { <<N_icons>> }
        /\ <<N_icons_zip>> \notin DOMAIN IconsArchive.entries

\* C6: the final module archive has a member icons equal to the
\* intermediate icons archive and no member for a file of the resource
\* subdirectory res/drawable-xxhdpi.
C6_IconsNestedInModule ==
    pc = "packed" =>
        /\ <<N_icons>> \in DOMAIN FinalArchive.entries
        /\ FinalArchive.entries[<<N_icons>>] = IconsArchive
        /\ \A a \in DOMAIN FinalArchive.entries :
              /\ ~ IsPrefix(<<N_res, N_drawable_xxhdpi>>, a)
              /\ \A p \in FilesBelow(icons_template_dir \o <<N_res, N_drawable_xxhdpi>>) :
                    a # relpath(p, icons_template_dir \o <<N_res, N_drawable_xxhdpi>>)

module_globals ==
    { "FG_COLOR", "BG_COLOR", "ICON_SIZE", "ICON_SCALE", "current_dir",
      "original_appfilter", "icon_mapper", "svg_dir", "output_dir",
      "icons_template_dir", "magisk_template_dir", "target_magisk_pattern" }

\* the parameters of pack_icons_zip
pack_icons_zip_params ==
    { "output_dir", "icons_template_dir", "magisk_template_dir" }

\* the keyword arguments of main's call of pack_icons_zip, as
\* <<keyword, global read for its value>>
main_pack_icons_zip_call ==
    { <<"output_dir", "output_dir">>,
      <<"icons_template_dir", "icons_template_dir">>,
      <<"mtz_template_dir", "mtz_template_dir">>,
      <<"magisk_template_dir", "magisk_template_dir">> }

\* evaluating a call: the argument expressions first, then the binding of
\* keywords to parameters
call_exception(call, params) ==
    IF \E kw \in call : kw[2] \notin module_globals THEN "NameError"
    ELSE IF \E kw \in call : kw[1] \notin params THEN "TypeError"
    ELSE ""

MaxMainItems ==
    1

MainTables ==
    UNION { [1..n -> Items] : n \in 0..MaxMainItems }

\* the source table: parseable, not parseable, or missing
AppfilterEntries ==
    { { <<original_appfilter, XmlFile(t)>> } : t \in MainTables }
       \cup { { <<original_appfilter, RawFile("not xml")>> }, {} }

\* what a previous run left behind
PreviousRunEntries ==
    TargetEntries(clean_up[1], "dirfull")
       \cup TargetEntries(clean_up[2], "dirfull")
       \cup TargetEntries(clean_up[4], "file")
       \cup TargetEntries(clean_up[6], "file")
       \cup TargetEntries(clean_up[7], "file")

InitMain ==
    /\ pc = "main_cleanup"
    /\ current_dir = WorkLocation
    /\ log = <<>>
    /\ exc = ""
    /\ \E table \in AppfilterEntries, assets \in AssetTrees, rerun \in BOOLEAN :
          fs = FsOf(TemplateEntries \cup table \cup assets
                    \cup (IF rerun THEN PreviousRunEntries ELSE {}))

Advance(r, banner, next) ==
    /\ fs' = r.fs
    /\ exc' = r.exc
    /\ log' = log \o <<banner>> \o r.out
    /\ pc' = IF r.exc # "" THEN "aborted" ELSE next
    /\ UNCHANGED current_dir

MainCleanup ==
    /\ pc = "main_cleanup"
    /\ Advance(cleanup(fs), "Cleaner", "main_convert")

MainConvert ==
    /\ pc = "main_convert"
    /\ Advance(convert_icon_mapper(fs, original_appfilter, icon_mapper),
               "MappingProcessor", "main_generate")

MainGenerate ==
    /\ pc = "main_generate"
    /\ Advance(generate_icons(fs, icon_mapper, svg_dir, output_dir),
               "IconProcessor", "main_pack")

\* the ThemePacker stage: the call of pack_icons_zip, then the call of
\* pack_magisk_module and the closing message
MainPack ==
    /\ pc = "main_pack"
    /\ LET e == call_exception(main_pack_icons_zip_call, pack_icons_zip_params)
       IN  IF e # ""
           THEN Advance(Result(fs, e, <<>>), "ThemePacker", "finished")
           ELSE \E seen \in SUBSET TopMembers(fs, icons_template_dir,
                                              icons_template_dir \o <<N_icons_zip>>),
                   timestamp \in Timestamps :
                   LET a == pack_icons_zip(fs, output_dir, icons_template_dir,
                                           magisk_template_dir, seen)
                       b == pack_magisk_module(a.fs, current_dir, magisk_template_dir, timestamp)
                   IN  IF a.exc # "" THEN Advance(a, "ThemePacker", "finished")
                       ELSE Advance(Result(b.fs, b.exc, a.out \o b.out \o <<"done">>),
                                    "ThemePacker", "finished")

NextMain ==
    \/ MainCleanup
    \/ MainConvert
    \/ MainGenerate
    \/ MainPack

SpecMain ==
    InitMain /\ [][NextMain]_vars

SourceTableParses ==
    /\ is_file(fs, original_appfilter)
    /\ fs[original_appfilter].tag = "xml"

\* C5: with a source table that exists and parses, main runs Clean, Map,
\* Render, Pack(A), Pack(B) in this order, each once, without aborting, and
\* ends with the timestamped module archive written.
C5_PipelineCompletes ==
    (SourceTableParses /\ pc \in {"aborted", "finished"}) =>
        /\ pc = "finished"
        /\ exc = ""
        /\ SelectSeq(log, LAMBDA l : l \in { "Cleaner.cleanup",
                                              "MappingProcessor.convert_icon_mapper",
                                              "IconProcessor.generate_icons",
                                              "ThemePacker.pack_icons_zip",
                                              "ThemePacker.pack_magisk_module" })
              = << "Cleaner.cleanup",
                   "MappingProcessor.convert_icon_mapper",
                   "IconProcessor.generate_icons",
                   "ThemePacker.pack_icons_zip",
                   "ThemePacker.pack_magisk_module" >>
        /\ \E t \in Timestamps : is_file(fs, target_magisk(t))

====
